---------------------------- MODULE Spec2Model ----------------------------
(***************************************************************************)
(* A model of rich's BarChart renderable (src/rich/bar_chart.py).          *)
(*                                                                         *)
(* A chart object is constructed once from a dataset and a configuration   *)
(* (BarChart.__init__), and is then rendered (__rich_console__) and        *)
(* measured (__rich_measure__) any number of times under container         *)
(* options chosen by the host console.  __rich_console__ is a generator:   *)
(* the call only creates it, and each next() runs its body to the next     *)
(* yield, handing one segment to the caller, who may do anything before    *)
(* asking for the next one.  A list of (label, value) tuples is kept by    *)
(* the chart, not copied, so the caller can still append to it.            *)
(*                                                                         *)
(* Text is a sequence of one-character strings, so that len(), slicing,    *)
(* repetition and concatenation are Len, SubSeq, Repeat and \o.            *)
(* Numbers are integers; an entry value carries an isfloat flag because    *)
(* the code formats floats and ints differently.  The extent of a bar,     *)
(* int((value / max) * size), is computed as binary64 computes it: the     *)
(* division and the multiplication each round to 53 significant bits, so   *)
(* int((7 / 5) * 45) = 62 and int((1 / 49) * 49) = 0.  Bar widths are      *)
(* enumerated from 0 upwards, and from -1 for vertical charts.             *)
(***************************************************************************)
EXTENDS Integers, Sequences, FiniteSets, TLC

VARIABLES
    phase,      \* "new" (not constructed), "built", or "failed" (__init__ raised)
    error,      \* the exception __init__ raised, "none" if none
    arg,        \* what __init__ was called with: the data and the options
    self,       \* the attributes of the BarChart object
    initial,    \* history: the attributes as __init__ left them
    gen,        \* the generator the latest __rich_console__ call returned
    previous,   \* history: the finished render before it, if under the same options
    last        \* the latest call on the chart or generator and its result

vars == <<phase, error, arg, self, initial, gen, previous, last>>

(***************************************************************************)
(* Optional values (Python's None) and small helpers.                      *)
(***************************************************************************)
None == [some |-> FALSE]
Some(v) == [some |-> TRUE, val |-> v]

Min(a, b) == IF a <= b THEN a ELSE b

\* Python's  s * n  for a one-character string s: empty when n <= 0.
Repeat(ch, n) == IF n <= 0 THEN <<>> ELSE [k \in 1 .. n |-> ch]

Digits == <<"0", "1", "2", "3", "4", "5", "6", "7", "8", "9">>

RECURSIVE NatStr(_)
NatStr(n) == IF n < 10 THEN <<Digits[n + 1]>>
             ELSE NatStr(n \div 10) \o <<Digits[(n % 10) + 1]>>

\* str(n) for an int n
IntStr(n) == IF n < 0 THEN <<"-">> \o NatStr(-n) ELSE NatStr(n)

\* f"{value:.2f}" for a float holding the integer n
Fixed2Str(n) == IntStr(n) \o <<".", "0", "0">>

(***************************************************************************)
(* Glyphs of rich.bar and the external style parser.                       *)
(***************************************************************************)
FULL_BLOCK == "#"
END_BLOCK_ELEMENTS == <<" ", "e1", "e2", "e3", "e4", "e5", "e6", "e7">>

\* Style.parse(str(raw_style)): the style object a style definition denotes
StyleParse(raw) == <<"Style", raw>>

\* Segment(text, style) and Segment.line()
Segment(text, style) == [text |-> text, style |-> style]
SegmentLine == [text |-> <<"\n">>, style |-> None]

default_colors ==
    <<"blue", "green", "yellow", "magenta", "cyan", "red",
      "bright_blue", "bright_green">>

(***************************************************************************)
(* Bounds and the inputs the model enumerates.                             *)
(***************************************************************************)
MaxItems == 2       \* longest dataset of the layout and vertical specifications
MaxVal == 2         \* entry values range over -1 .. MaxVal
MaxBars == 9        \* longest dataset of the style specification
MaxScaleVal == 7    \* the scaling specification takes values 1 .. MaxScaleVal

Values == -1 .. MaxVal

Letters == <<"a", "b", "c", "d", "e", "f", "g", "h", "i", "j">>

\* The i-th label of a labelled dataset: "a", "bb", "ccc", ...
LabelAsc(i) == Repeat(Letters[i], i)
\* ... or, longest first, for a dataset of n entries
LabelDesc(i, n) == Repeat(Letters[i], n + 1 - i)

Pair(label, value) == [tuple |-> TRUE, label |-> label, value |-> value]
Number(value) == [tuple |-> FALSE, value |-> value]

ValueSeqs(n) == [1 .. n -> Values]

\* the values of the list datasets: negative, zero and the largest
ListValues == {-1, 0, MaxVal}
ListValueSeqs(n) == [1 .. n -> ListValues]

\* dict: {label: value, ...} in insertion order; keys are distinct
DictData ==
    UNION { { [type |-> "dict",
               elems |-> [i \in 1 .. n |-> Pair(LabelAsc(i), vs[i])]] :
              vs \in ValueSeqs(n) } : n \in 0 .. MaxItems }

\* list of (label, value) tuples, List[Tuple[str, float]]
PairListData ==
    UNION { { [type |-> "list",
               elems |-> [i \in 1 .. n |-> Pair(LabelDesc(i, n), vs[i])]] :
              vs \in ListValueSeqs(n) } : n \in 1 .. MaxItems }

\* list of bare values, Sequence[float]; the empty list is here
ValueListData ==
    UNION { { [type |-> "list", elems |-> [i \in 1 .. n |-> Number(vs[i])]] :
              vs \in ListValueSeqs(n) } : n \in 0 .. MaxItems }

Datasets == DictData \cup PairListData \cup ValueListData

\* The container constraints a console hands to a render or measure call:
\* options.max_width, and options.height (or options.size.height).
Options == { [max_width |-> 14, height |-> 0], [max_width |-> 20, height |-> 12] }

\* wide consoles: bar areas of 45 and 55 cells beside a one-character label
ScaleOptions == [max_width : {48, 58}, height : {12}]

\* the console of the style specification
StyleOptions == [max_width : {20}, height : {2}]

\* the console of the aliasing specification
AliasOptions == [max_width : {14}, height : {12}]

Defaults ==
    [width |-> None, max_value |-> None, show_values |-> TRUE, bar_width |-> 1,
     orientation |-> "horizontal", chart_height |-> None, style |-> None,
     bar_styles |-> None, label_style |-> None, value_style |-> None]

MaxValues == {None, Some(0), Some(2)}
BarWidths == {0, 1, 2}

\* horizontal charts: the options the horizontal layout reads, each width
\* with and without the value column, and each maximum with each thickness
HorizontalConfigs ==
    { [Defaults EXCEPT !.width = w, !.show_values = sv] :
        w \in {None, Some(16)}, sv \in BOOLEAN }
    \cup
    { [Defaults EXCEPT !.max_value = m, !.bar_width = bw] :
        m \in MaxValues, bw \in BarWidths }

ChartHeights == {None, Some(-1), Some(0), Some(3)}

\* vertical charts: the options the vertical layout reads, each chart
\* height, and each maximum and each thickness on three rows
VerticalConfigs ==
    { [Defaults EXCEPT !.orientation = "vertical", !.chart_height = ch] :
        ch \in ChartHeights }
    \cup
    { [Defaults EXCEPT !.orientation = "vertical", !.max_value = m,
                       !.chart_height = Some(3)] : m \in MaxValues }
    \cup
    { [Defaults EXCEPT !.orientation = "vertical", !.bar_width = bw,
                       !.chart_height = Some(3)] : bw \in BarWidths \cup {-1} }

\* vertical charts of two rows, for the layout specification
LowVerticalConfigs ==
    { [Defaults EXCEPT !.orientation = "vertical", !.max_value = m,
                       !.chart_height = Some(2)] : m \in MaxValues }

Configs == HorizontalConfigs \cup LowVerticalConfigs

\* the style specification: long bare-value datasets, every style option;
\* "" is the definition of the null style, which is falsy like None
StyleDatasets ==
    { [type |-> "list", elems |-> [i \in 1 .. n |-> Number(1)]] :
        n \in 1 .. MaxBars }

StyleConfigs ==
    { [Defaults EXCEPT !.orientation = orient, !.style = st, !.bar_styles = bs,
                       !.label_style = ls] :
        orient \in {"horizontal", "vertical"},
        st \in {None, Some(""), Some("white")},
        bs \in {None, Some(<<>>), Some(<<"red">>), Some(<<"red", "bold">>)},
        ls \in {None, Some("dim")} }

\* the scaling specification: one bare value, maxima that do not divide
\* into it exactly in binary, bar areas and chart heights of 45 and more
ScaleDatasets ==
    { [type |-> "list", elems |-> <<Number(v)>>] : v \in 1 .. MaxScaleVal }

ScaleConfigs ==
    { [Defaults EXCEPT !.max_value = m, !.show_values = FALSE, !.bar_width = bw] :
        m \in {None, Some(5), Some(11)}, bw \in {1, 2} }
    \cup
    { [Defaults EXCEPT !.orientation = "vertical", !.max_value = m,
                       !.chart_height = ch] :
        m \in {None, Some(5), Some(11)}, ch \in {None, Some(55)} }

\* the aliasing specification: lists of (label, value) tuples, which the
\* chart keeps and the caller can still append to
AliasConfigs ==
    { [Defaults EXCEPT !.show_values = FALSE],
      [Defaults EXCEPT !.orientation = "vertical", !.chart_height = Some(2)] }

\* what the caller appends: a label longer than every label of the list
AppendedTuples == { Pair(LabelAsc(MaxItems + 2), MaxVal) }

(***************************************************************************)
(* BarChart.__init__                                                       *)
(***************************************************************************)
\* float(v) of a bare value, and the entry (str(i), float(v)); i is 0-based
FloatEntry(i, v) == [label |-> IntStr(i), value |-> v, isfloat |-> TRUE]

\* an entry taken as supplied from a dict item or a (label, value) tuple
GivenEntry(e) == [label |-> e.label, value |-> e.value, isfloat |-> FALSE]

\* lines 52-59: the three input shapes, normalized to a list of entries
Normalize(data) ==
    IF data.type = "dict"
    THEN [i \in 1 .. Len(data.elems) |-> GivenEntry(data.elems[i])]
    ELSE IF data.type = "list" /\ Len(data.elems) > 0 /\ data.elems[1].tuple
    THEN [i \in 1 .. Len(data.elems) |-> GivenEntry(data.elems[i])]
    ELSE [i \in 1 .. Len(data.elems) |-> FloatEntry(i - 1, data.elems[i].value)]

\* max(values)
MaxOfValues(items) ==
    CHOOSE v \in { items[i].value : i \in 1 .. Len(items) } :
        \A j \in 1 .. Len(items) : items[j].value <= v

\* line 76: the supplied maximum, else the largest entry value
RawMaxValue(items, max_value) ==
    IF max_value.some THEN max_value.val ELSE MaxOfValues(items)

\* faulty variant: only negative maxima are replaced (< for <=)
EffectiveMaxStrict(items, max_value) ==
    IF RawMaxValue(items, max_value) < 0 THEN 1
    ELSE RawMaxValue(items, max_value)

\* lines 76-78: non-positive maxima become 1.0
EffectiveMax(items, max_value) ==
    IF RawMaxValue(items, max_value) <= 0 THEN 1
    ELSE RawMaxValue(items, max_value)

\* line 70: list(bar_styles) if bar_styles else None
NormalizeBarStyles(bar_styles) ==
    IF bar_styles.some /\ Len(bar_styles.val) > 0 THEN bar_styles ELSE None

\* faulty variant: a single entry is rejected too (len(items) < 2)
InitRaisesOffByOne(data) ==
    IF Len(Normalize(data)) <= 1 THEN "ValueError" ELSE "none"

\* lines 61-62: the exception __init__ raises for this dataset, if any
InitRaises(data) == IF Len(Normalize(data)) = 0 THEN "ValueError" ELSE "none"

\* lines 64-78: the attributes of the constructed object
NewChart(data, cfg) ==
    [items        |-> Normalize(data),
     width        |-> cfg.width,
     show_values  |-> cfg.show_values,
     bar_width    |-> cfg.bar_width,
     orientation  |-> cfg.orientation,
     chart_height |-> cfg.chart_height,
     style        |-> cfg.style,
     bar_styles   |-> NormalizeBarStyles(cfg.bar_styles),
     label_style  |-> cfg.label_style,
     value_style  |-> cfg.value_style,
     max_value    |-> EffectiveMax(Normalize(data), cfg.max_value)]

NoObject == [items |-> <<>>]
NoCall == [call |-> "none"]
NoGenerator == [pc |-> "none"]
NoArg == [type |-> "none", len |-> 0, tuples |-> FALSE, max_value |-> None]
NoRender == [pc |-> "none"]

\* BarChart(data, **cfg)
Construct(D, C) ==
    /\ phase = "new"
    /\ \E data \in D, cfg \in C :
        /\ arg' = [type |-> data.type, len |-> Len(data.elems),
                   tuples |-> (Len(data.elems) > 0 /\ data.elems[1].tuple),
                   max_value |-> cfg.max_value, data |-> data, cfg |-> cfg]
        /\ error' = InitRaises(data)
        /\ IF InitRaises(data) = "none"
           THEN /\ phase' = "built"
                /\ self' = NewChart(data, cfg)
                /\ initial' = NewChart(data, cfg)
           ELSE /\ phase' = "failed"
                /\ UNCHANGED <<self, initial>>
    /\ UNCHANGED <<gen, previous, last>>

\* line 56 keeps the caller's list of tuples (dict items and bare values are
\* copied, lines 54 and 59): data.append(t) by the caller appends to
\* self.items.  The list is capped at MaxItems + 1 entries.
CallerAppend(T) ==
    /\ phase = "built"
    /\ arg.type = "list" /\ arg.tuples
    /\ Len(self.items) <= MaxItems
    /\ \E t \in T : self' = [self EXCEPT !.items = Append(@, GivenEntry(t))]
    /\ UNCHANGED <<phase, error, arg, initial, gen, previous, last>>

(***************************************************************************)
(* BarChart._get_bar_style                                                 *)
(***************************************************************************)
\* lines 105-110: the style definition of the bar at 0-based index
RawBarStyle(c, index) ==
    IF c.bar_styles.some /\ Len(c.bar_styles.val) > 0
    THEN c.bar_styles.val[(index % Len(c.bar_styles.val)) + 1]
    ELSE IF c.style.some /\ c.style.val # ""
    THEN c.style.val
    ELSE default_colors[(index % Len(default_colors)) + 1]

GetBarStyle(c, index) == Some(StyleParse(RawBarStyle(c, index)))

\* Style.parse(str(s)) if s else None, for label_style and value_style
OptionalStyle(s) == IF s.some /\ s.val # "" THEN Some(StyleParse(s.val)) ELSE None

(***************************************************************************)
(* Scaling, shared by both layouts                                         *)
(*                                                                         *)
(* The code computes int((value / max_value) * size) on binary64 floats:   *)
(* q = value / max_value is rounded to 53 significant bits, q * size is    *)
(* rounded again, and int() truncates toward zero.  value, max_value and   *)
(* size are integers below 2^15 here, so the two relative errors (at most  *)
(* 2^-53 each) can move the truncation only when value * size / max_value  *)
(* is itself an integer E and the rounded product lands below it; then     *)
(* the result is E - 1.  Whether it lands below is decided exactly from    *)
(* the remainder the division leaves.                                      *)
(***************************************************************************)
RECURSIVE Pow2(_)
Pow2(n) == IF n <= 0 THEN 1 ELSE 2 * Pow2(n - 1)

RECURSIVE Log2Floor(_)
\* the binary exponent of an integer n >= 1: the largest e with 2^e <= n
Log2Floor(n) == IF n < 2 THEN 0 ELSE 1 + Log2Floor(n \div 2)

RECURSIVE ShiftsToReach(_, _)
\* for 0 < v < m: the least j >= 1 with v * 2^j >= m
ShiftsToReach(v, m) == IF 2 * v >= m THEN 1 ELSE 1 + ShiftsToReach(2 * v, m)

\* the binary exponent g of the quotient v / m, 2^g <= v / m < 2^(g+1), v, m > 0
QuotientExponent(v, m) ==
    IF v >= m THEN Log2Floor(v \div m) ELSE -ShiftsToReach(v, m)

RECURSIVE Pow2Mod(_, _)
\* 2^k mod m by repeated squaring; every product stays below 2^31 for m < 2^15
Pow2Mod(k, m) ==
    IF k <= 0 THEN 1 % m
    ELSE LET h == Pow2Mod(k \div 2, m)
         IN  (h * h * (IF k % 2 = 1 THEN 2 ELSE 1)) % m

\* (x * 2^k) mod m, for 0 <= x < m
ShiftMod(x, k, m) == (x * Pow2Mod(k, m)) % m

\* value / max_value in binary64: the quotient has exponent g and its
\* significand is v * 2^(52 - g) / m rounded to the nearest integer.  The
\* result is how far the rounded quotient lies BELOW v / m, in units of
\* 2^(g - 52) / m: the remainder t when it is under half of m (rounded down),
\* and 0 when the quotient is exact or rounded up.
DivisionDeficit(v, m) ==
    LET t == ShiftMod(v % m, 52 - QuotientExponent(v, m), m)
    IN  IF 2 * t < m THEN t ELSE 0

\* (value / max_value) * size in binary64, when v * size / m is the integer
\* E >= 1: the exact product of the rounded quotient and size is
\* E - t * size * 2^(g - 52) / m.  It rounds to a float below E when that
\* distance exceeds half the spacing of the floats just below E, which is
\* 2^(e - 52) for 2^e < E < 2^(e+1) and 2^(e - 53) for E = 2^e (a tie rounds
\* to E, whose significand is even).
ProductBelow(v, m, size) ==
    LET E == (v * size) \div m
        g == QuotientExponent(v, m)
        t == DivisionDeficit(v, m)
        e == Log2Floor(E)
        spacings == IF E = Pow2(e) THEN 4 ELSE 2
    IN  spacings * t * size * Pow2(g) > m * Pow2(e) * Pow2(-g)

\* int((v / m) * size) for v >= 0, m > 0, size > 0
ScaleNonNegative(v, m, size) ==
    LET num == v * size
    IN  IF num > 0 /\ num % m = 0 /\ ProductBelow(v, m, size)
        THEN num \div m - 1
        ELSE num \div m

\* faulty variant: the magnitude of the value is scaled
IntScaleMagnitude(value, max_value, size) ==
    IF max_value > 0
    THEN ScaleNonNegative(IF value < 0 THEN -value ELSE value, max_value, size)
    ELSE 0

\* int((value / max_value) * size), or 0 when max_value is not positive;
\* binary64 arithmetic is symmetric in the sign and int() truncates toward 0
IntScale(value, max_value, size) ==
    IF max_value > 0
    THEN IF value >= 0 THEN ScaleNonNegative(value, max_value, size)
         ELSE -ScaleNonNegative(-value, max_value, size)
    ELSE 0

(***************************************************************************)
(* BarChart._render_horizontal                                             *)
(***************************************************************************)
\* lines 117-120
AvailableWidth(c, o) ==
    Min(IF c.width.some THEN c.width.val ELSE o.max_width, o.max_width)

\* line 123: max(len(str(label)) for label, _ in self.items)
MaxLabelLen(c) ==
    CHOOSE n \in { Len(c.items[i].label) : i \in 1 .. Len(c.items) } :
        \A j \in 1 .. Len(c.items) : Len(c.items[j].label) <= n

\* line 124
LabelWidth(c) == MaxLabelLen(c) + 2

\* lines 127-133
BarAreaWidth(c, o) ==
    LET w == AvailableWidth(c, o) - LabelWidth(c) - (IF c.show_values THEN 12 ELSE 0)
    IN  IF w < 1 THEN 1 ELSE w

\* lines 140-143
BarLength(c, bar_area_width, value) == IntScale(value, c.max_value, bar_area_width)

\* lines 151-156, for bar_width > 0; // and % are Python's floored operators
BarChars(bar_length, bar_width) ==
    LET full_blocks == bar_length \div bar_width
        remainder == bar_length % bar_width
    IN  Repeat(FULL_BLOCK, full_blocks)
          \o (IF remainder > 0 /\ remainder < Len(END_BLOCK_ELEMENTS)
              THEN <<END_BLOCK_ELEMENTS[remainder + 1]>> ELSE <<>>)

\* lines 159-164
ValueText(c, e) ==
    IF c.show_values
    THEN <<" ">> \o (IF e.isfloat THEN Fixed2Str(e.value) ELSE IntStr(e.value))
    ELSE <<>>

\* lines 135-177: the segments of the line of the entry at 1-based position i
HorizontalLine(c, label_width, bar_area_width, i) ==
    LET e == c.items[i]
        label_padding == Repeat(" ", label_width - Len(e.label) - 1)
        bar_chars == BarChars(BarLength(c, bar_area_width, e.value), c.bar_width)
        value_text == ValueText(c, e)
    IN  <<Segment(label_padding, None),
          Segment(e.label, OptionalStyle(c.label_style)),
          Segment(<<" ">>, None),
          Segment(bar_chars, GetBarStyle(c, i - 1))>>
        \o (IF Len(value_text) > 0
            THEN <<Segment(value_text, OptionalStyle(c.value_style))>> ELSE <<>>)
        \o <<SegmentLine>>

(***************************************************************************)
(* BarChart._render_vertical                                               *)
(***************************************************************************)
\* lines 184-192; o.height is options.height, or options.size.height
ChartHeight(c, o) ==
    LET default_height == 10
        chart_height == IF c.chart_height.some /\ c.chart_height.val # 0
                        THEN c.chart_height.val
                        ELSE Min(default_height, o.height)
    IN  IF chart_height < 1 THEN 1 ELSE chart_height

\* lines 198-201
BarHeight(c, chart_height, value) == IntScale(value, c.max_value, chart_height)

\* lines 195-203: the heights, computed before any row is drawn
BarHeights(c, chart_height) ==
    [idx \in 1 .. Len(c.items) |-> BarHeight(c, chart_height, c.items[idx].value)]

\* lines 196-203: the styles, computed with the heights
BarStyles(c) == [idx \in 1 .. Len(c.items) |-> GetBarStyle(c, idx - 1)]

\* faulty variant: the rows are drawn bottom row first
RowRangeBottomUp(chart_height) == [k \in 1 .. chart_height |-> k]

\* line 208: range(chart_height, 0, -1)
RowRange(chart_height) == [k \in 1 .. chart_height |-> chart_height + 1 - k]

\* lines 210-219: one segment per computed height and a gap between bars
RECURSIVE BarRowSegments(_, _, _, _, _)
BarRowSegments(bar_width, bar_heights, bar_styles, row, idx) ==
    IF idx > Len(bar_heights) THEN <<>>
    ELSE <<IF bar_heights[idx] >= row
           THEN Segment(Repeat(FULL_BLOCK, bar_width), bar_styles[idx])
           ELSE Segment(Repeat(" ", bar_width), None)>>
         \o (IF idx # Len(bar_heights) THEN <<Segment(<<" ">>, None)>> ELSE <<>>)
         \o BarRowSegments(bar_width, bar_heights, bar_styles, row, idx + 1)

\* lines 229-234: label_str[:bar_width], or label_str.ljust(bar_width)
FitLabel(label, bar_width) ==
    IF Len(label) > bar_width
    THEN SubSeq(label, 1, IF bar_width >= 0 THEN bar_width ELSE Len(label) + bar_width)
    ELSE label \o Repeat(" ", bar_width - Len(label))

\* lines 227-237: one segment per entry the chart holds when the label row
\* is reached
RECURSIVE LabelRowSegments(_, _)
LabelRowSegments(c, idx) ==
    IF idx > Len(c.items) THEN <<>>
    ELSE <<Segment(FitLabel(c.items[idx].label, c.bar_width),
                   OptionalStyle(c.label_style))>>
         \o (IF idx # Len(c.items) THEN <<Segment(<<" ">>, None)>> ELSE <<>>)
         \o LabelRowSegments(c, idx + 1)

(***************************************************************************)
(* The generator of __rich_console__                                       *)
(*                                                                         *)
(* pc is where the generator is suspended: "start" (created, body not yet  *)
(* begun), "horizontal" (in the yield from of line 177), "rows" (line      *)
(* 221), "labels" (line 239), "done" (returned) or "raised".  frame holds  *)
(* the locals of the suspended render method, pending the segments of the  *)
(* current yield from that are still to be handed out.  Two history        *)
(* fields: out, the segments handed out so far, and chart, the chart's     *)
(* attributes when __rich_console__ was called.                            *)
(***************************************************************************)
NoFrame == [scope |-> "none"]

NewGenerator(c, o) ==
    [pc |-> "start", options |-> o, frame |-> NoFrame, pending |-> <<>>,
     out |-> <<>>, chart |-> c]

\* yield from segments (never empty): the first is handed out, the rest wait
YieldFrom(g, pc, frame, segments) ==
    [gen |-> [g EXCEPT !.pc = pc, !.frame = frame, !.pending = Tail(segments),
                       !.out = Append(@, Head(segments))],
     raised |-> "none", value |-> Some(Head(segments))]

\* the generator returns: next() raises StopIteration
Return(g) ==
    [gen |-> [g EXCEPT !.pc = "done", !.frame = NoFrame, !.pending = <<>>],
     raised |-> "StopIteration", value |-> None]

\* an exception leaves the generator: next() raises it
Raise(g, exception) ==
    [gen |-> [g EXCEPT !.pc = "raised", !.frame = NoFrame, !.pending = <<>>],
     raised |-> exception, value |-> None]

\* lines 135-177: the iteration of the for loop over self.items that takes
\* the entry at 0-based idx, if the list (as it is now) has one;
\* bar_length // 0 raises before any segment of the line is yielded
HorizontalLoop(c, g, label_width, bar_area_width, idx) ==
    IF idx >= Len(c.items) THEN Return(g)
    ELSE IF c.bar_width = 0 THEN Raise(g, "ZeroDivisionError")
    ELSE YieldFrom(g, "horizontal",
                   [label_width |-> label_width, bar_area_width |-> bar_area_width,
                    idx |-> idx],
                   HorizontalLine(c, label_width, bar_area_width, idx + 1))

\* lines 117-135: the widths are computed once, before the first entry
HorizontalStart(c, g) ==
    HorizontalLoop(c, g, LabelWidth(c), BarAreaWidth(c, g.options), 0)

\* lines 208-239: the k-th row of the range, or the label row after the last
VerticalLoop(c, g, frame, k) ==
    IF k <= Len(RowRange(frame.chart_height))
    THEN YieldFrom(g, "rows", [frame EXCEPT !.k = k],
                   BarRowSegments(c.bar_width, frame.bar_heights, frame.bar_styles,
                                  RowRange(frame.chart_height)[k], 1)
                     \o <<SegmentLine>>)
    ELSE YieldFrom(g, "labels", [frame EXCEPT !.k = k],
                   LabelRowSegments(c, 1) \o <<SegmentLine>>)

\* lines 184-208: the height, heights and styles are computed once
VerticalStart(c, g) ==
    LET chart_height == ChartHeight(c, g.options)
    IN  VerticalLoop(c, g,
                     [chart_height |-> chart_height,
                      bar_heights |-> BarHeights(c, chart_height),
                      bar_styles |-> BarStyles(c), k |-> 0],
                     1)

\* next(generator): the body runs from where it is suspended to the next
\* yield, reading the chart as it is now
Resume(c, g) ==
    IF g.pc = "start"
    THEN IF c.orientation = "vertical" THEN VerticalStart(c, g)
         ELSE HorizontalStart(c, g)
    ELSE IF g.pc \in {"done", "raised"}
    THEN [gen |-> g, raised |-> "StopIteration", value |-> None]
    ELSE IF Len(g.pending) > 0
    THEN [gen |-> [g EXCEPT !.pending = Tail(@), !.out = Append(@, Head(g.pending))],
          raised |-> "none", value |-> Some(Head(g.pending))]
    ELSE IF g.pc = "horizontal"
    THEN HorizontalLoop(c, g, g.frame.label_width, g.frame.bar_area_width,
                        g.frame.idx + 1)
    ELSE IF g.pc = "rows"
    THEN VerticalLoop(c, g, g.frame, g.frame.k + 1)
    ELSE Return(g)

(***************************************************************************)
(* The render and measure entry points                                     *)
(***************************************************************************)
\* lines 245-247: Measurement(minimum, maximum)
Measure(c, o) ==
    IF c.width.some THEN <<c.width.val, c.width.val>> ELSE <<20, o.max_width>>

\* what the generator g handed out, when it has returned or raised and ran
\* under the container constraints o of the call being made; nothing for a
\* generator dropped unfinished or one that ran under other constraints
Finished(g, o) ==
    IF g.pc \in {"done", "raised"} /\ g.options = o
    THEN [pc |-> g.pc, options |-> g.options, out |-> g.out]
    ELSE NoRender

\* chart.__rich_console__(console, options): a new generator is returned and
\* no line of the body runs; the caller drops the generator it held
RichConsole(O) ==
    /\ phase = "built"
    /\ \E o \in O :
        /\ gen' = NewGenerator(self, o)
        /\ previous' = Finished(gen, o)
    /\ last' = [call |-> "render"]
    /\ UNCHANGED <<phase, error, arg, self, initial>>

\* next(generator): one segment, StopIteration, or the exception raised
GeneratorNext ==
    /\ phase = "built"
    /\ gen.pc # "none"
    /\ LET r == Resume(self, gen)
       IN  /\ gen' = r.gen
           /\ last' = [call |-> "next", raised |-> r.raised, value |-> r.value]
    /\ UNCHANGED <<phase, error, arg, self, initial, previous>>

\* Measurement.get(console, options, chart)
RichMeasure(O) ==
    /\ phase = "built"
    /\ \E o \in O :
        last' = [call |-> "measure", minimum |-> Measure(self, o)[1],
                 maximum |-> Measure(self, o)[2]]
    /\ UNCHANGED <<phase, error, arg, self, initial, gen, previous>>

Init ==
    /\ phase = "new"
    /\ error = "none"
    /\ arg = NoArg
    /\ self = NoObject
    /\ initial = NoObject
    /\ gen = NoGenerator
    /\ previous = NoRender
    /\ last = NoCall

\* the layout specification: every dataset shape and layout option, and a
\* caller that leaves the data it passed alone
Next ==
    \/ Construct(Datasets, Configs)
    \/ RichConsole(Options)
    \/ GeneratorNext
    \/ RichMeasure(Options)

Spec == Init /\ [][Next]_vars

\* the same object, constructed from the datasets and options of the
\* style specification
NextStyle ==
    \/ Construct(StyleDatasets, StyleConfigs)
    \/ RichConsole(StyleOptions)
    \/ GeneratorNext
    \/ RichMeasure(StyleOptions)

SpecStyle == Init /\ [][NextStyle]_vars

\* the same object, constructed from the dict datasets and every vertical
\* option
NextVertical ==
    \/ Construct(DictData, VerticalConfigs)
    \/ RichConsole(Options)
    \/ GeneratorNext
    \/ RichMeasure(Options)

SpecVertical == Init /\ [][NextVertical]_vars

\* the same object, constructed from the datasets and options of the
\* scaling specification and rendered on wide consoles
NextScale ==
    \/ Construct(ScaleDatasets, ScaleConfigs)
    \/ RichConsole(ScaleOptions)
    \/ GeneratorNext
    \/ RichMeasure(ScaleOptions)

SpecScale == Init /\ [][NextScale]_vars

\* the same object, constructed from a list of tuples by a caller that
\* appends to the list at any time, between any two segments included
NextAlias ==
    \/ Construct(PairListData, AliasConfigs)
    \/ CallerAppend(AppendedTuples)
    \/ RichConsole(AliasOptions)
    \/ GeneratorNext
    \/ RichMeasure(AliasOptions)

SpecAlias == Init /\ [][NextAlias]_vars

(***************************************************************************)
(* Properties                                                              *)
(***************************************************************************)
Built == phase = "built"

\* the latest generator has returned or raised, and the chart is as it was
\* when the generator was created: a whole render of one chart
Rendered == Built /\ gen.pc \in {"done", "raised"} /\ gen.chart = self
Completed == Rendered /\ gen.pc = "done"
RenderedHorizontal == Rendered /\ self.orientation # "vertical"
RenderedVertical == Rendered /\ self.orientation = "vertical"

RECURSIVE LinesFrom(_, _)
\* the lines of a segment sequence: each ends with its line break
LinesFrom(segments, line) ==
    IF Len(segments) = 0 THEN (IF Len(line) = 0 THEN <<>> ELSE <<line>>)
    ELSE IF Head(segments) = SegmentLine
    THEN <<Append(line, SegmentLine)>> \o LinesFrom(Tail(segments), <<>>)
    ELSE LinesFrom(Tail(segments), Append(line, Head(segments)))

\* the lines the latest generator has handed out
Lines == LinesFrom(gen.out, <<>>)

RECURSIVE Drain(_, _)
\* the generator after the caller has taken every segment of it from the
\* chart c, doing nothing else in between
Drain(c, g) ==
    IF g.pc \in {"done", "raised"} THEN g ELSE Drain(c, Resume(c, g).gen)

\* the number of full-block glyphs in a text
CountFull(text) == Cardinality({ k \in 1 .. Len(text) : text[k] = FULL_BLOCK })

Max(a, b) == IF a >= b THEN a ELSE b

\* the largest member of a non-empty finite set of integers
Largest(S) == CHOOSE m \in S : \A x \in S : x <= m

\* the label the i-th entry of the dataset given to __init__ carries
InputLabel(i) ==
    IF arg.type = "dict" THEN LabelAsc(i)
    ELSE IF arg.tuples THEN LabelDesc(i, arg.len)
    ELSE IntStr(i - 1)

\* C1: constructing from an empty dataset (empty mapping, empty sequence)
\* fails with the validation error, and constructing from a non-empty
\* mapping, list of (label, value) tuples or sequence of bare values
\* succeeds and leaves a non-empty entry list.
C1_Construction ==
    phase # "new" =>
        /\ arg.len = 0 => (phase = "failed" /\ error = "ValueError")
        /\ arg.len > 0 => (phase = "built" /\ error = "none"
                           /\ Len(self.items) > 0)

C1_Witness ==
    /\ phase = "built"
    /\ arg.type = "list" /\ arg.tuples /\ arg.len = 2
    /\ Len(self.items) = 2

\* the chart __init__ builds from the same data and options when
\* max_value = 1.0 is supplied
WithUnitMax == NewChart(arg.data, [arg.cfg EXCEPT !.max_value = Some(1)])

\* the maximum the caller supplied, or else the largest value of the data
C2_SuppliedOrDerived ==
    IF arg.cfg.max_value.some THEN arg.cfg.max_value.val
    ELSE Largest({ arg.data.elems[i].value : i \in 1 .. Len(arg.data.elems) })

\* the bar-area width A of claim C7
C7_A ==
    LET W == IF self.width.some THEN self.width.val ELSE gen.options.max_width
        R == IF self.show_values THEN 12 ELSE 0
        longest == Largest({ Len(self.items[i].label) : i \in 1 .. Len(self.items) })
    IN  Max(1, Min(W, gen.options.max_width) - (longest + 2) - R)

\* the bars of the latest render are those of maximum 1.0: value * A cells
\* in a horizontal bar, and a column as high as value * chart height
C2_UnitExtents ==
    \A i \in 1 .. Len(self.items) :
        LET value == self.items[i].value
            bw == self.bar_width
            h == Len(Lines) - 1
        IN  value >= 0 =>
                IF self.orientation = "vertical"
                THEN \A k \in 1 .. h :
                         (Lines[k][2 * i - 1].text = Repeat(FULL_BLOCK, bw))
                           <=> (value * h >= h + 1 - k)
                ELSE CountFull(Lines[i][4].text) = (value * C7_A) \div bw

\* C2: after a successful construction the effective maximum is strictly
\* positive; it is the supplied maximum if one is given, else the largest
\* entry value, replaced by 1 when that number is <= 0; and a chart whose
\* supplied or derived maximum is <= 0 renders exactly like the same chart
\* with maximum 1: it hands out the segments of the chart constructed with
\* max_value = 1.0, and its bars have the extents of maximum 1.
C2_EffectiveMaximum ==
    Built =>
        /\ self.max_value > 0
        /\ self.max_value =
             (IF C2_SuppliedOrDerived <= 0 THEN 1 ELSE C2_SuppliedOrDerived)
        /\ (Rendered /\ C2_SuppliedOrDerived <= 0) =>
               LET unit == WithUnitMax
                   same == Drain(unit, NewGenerator(unit, gen.options))
               IN  /\ gen.pc = same.pc
                   /\ gen.out = same.out
                   /\ (gen.pc = "done" /\ self.bar_width >= 1) => C2_UnitExtents

C2_Witness ==
    /\ Completed
    /\ self.orientation # "vertical"
    /\ arg.cfg.max_value = Some(0)
    /\ self.max_value = 1
    /\ self.bar_width = 2
    /\ self.items[1].value = 2
    /\ CountFull(Lines[1][4].text) = C7_A
    /\ C7_A > 1

\* the values the extent is probed at: entry values and values beyond them
ProbeValues == (-MaxScaleVal - 1) .. (MaxScaleVal + 1)

\* C3: with the chart and the container constraints fixed, the bar length
\* (horizontal) and the bar height (vertical) are non-decreasing in the
\* entry value.
C3_Monotone ==
    Rendered =>
        LET A == BarAreaWidth(self, gen.options)
            H == ChartHeight(self, gen.options)
            length == [v \in ProbeValues |-> BarLength(self, A, v)]
            height == [v \in ProbeValues |-> BarHeight(self, H, v)]
        IN  \A v1, v2 \in ProbeValues :
                v1 <= v2 => (length[v1] <= length[v2] /\ height[v1] <= height[v2])

C3_Witness ==
    /\ RenderedHorizontal
    /\ gen.pc = "done"
    /\ self.max_value = 5
    /\ BarAreaWidth(self, gen.options) = 45
    /\ BarLength(self, 45, 6) = 54
    /\ BarLength(self, 45, 7) = 62
    /\ self.items[1].value = 7
    /\ CountFull(Lines[1][4].text) = 62
    /\ BarHeight(self, ChartHeight(self, gen.options), -1)
         < BarHeight(self, ChartHeight(self, gen.options), 1)

\* C4: rendering is a read-only projection: no step of a render or a
\* measure call (the call, or a next() on the generator) changes the
\* entries, the effective maximum or the configuration, and two renders of
\* the chart under identical container constraints (the configuration is
\* fixed at construction) hand out identical segment sequences.
C4_ReadOnly ==
    /\ [][(gen' # gen \/ last' # last) => self' = self]_vars
    /\ []((/\ Built
           /\ gen.pc \in {"done", "raised"}
           /\ previous.pc # "none"
           /\ previous.options = gen.options)
            => (previous.pc = gen.pc /\ previous.out = gen.out))

\* the number of lines a complete render emits
C5_FullLength ==
    IF self.orientation = "vertical" THEN ChartHeight(self, gen.options) + 1
    ELSE Len(self.items)

\* C5: once a chart is constructed, rendering it under any container
\* constraints and any bar thickness, width and chart height completes and
\* emits all its lines without raising.
C5_RenderNeverRaises ==
    Built =>
        /\ gen.pc # "raised"
        /\ Rendered => Len(Lines) = C5_FullLength

\* the layout of claim C6 in the latest vertical render: chart-height bar
\* rows, top row first, then one label row; in row r the column of an entry
\* is bar-thickness full blocks when its bar height is >= r and
\* bar-thickness spaces otherwise, and one space separates adjacent columns.
\* A column is full blocks if and only if the height is >= r for every
\* thickness from least upwards.
C6_Layout(least) ==
    RenderedVertical =>
        LET lines == Lines
            n == Len(self.items)
            h == Len(lines) - 1
            bw == self.bar_width
            height(i) == BarHeight(self, h, self.items[i].value)
        IN  /\ gen.pc = "done"
            /\ h >= 1
            /\ h = ChartHeight(self, gen.options)
            /\ \A k \in 1 .. h :
                 LET r == h + 1 - k
                     line == lines[k]
                 IN  /\ Len(line) = 2 * n
                     /\ line[2 * n] = SegmentLine
                     /\ \A i \in 1 .. n :
                          /\ height(i) >= r =>
                               line[2 * i - 1].text = Repeat(FULL_BLOCK, bw)
                          /\ height(i) < r =>
                               line[2 * i - 1].text = Repeat(" ", bw)
                          /\ bw >= least =>
                               (line[2 * i - 1].text = Repeat(FULL_BLOCK, bw)
                                  <=> height(i) >= r)
                          /\ i < n => line[2 * i].text = <<" ">>
            /\ LET labels == lines[h + 1]
               IN  /\ Len(labels) = 2 * n
                   /\ labels[2 * n] = SegmentLine
                   /\ \A i \in 1 .. n :
                        /\ labels[2 * i - 1].text
                             = FitLabel(self.items[i].label, bw)
                        /\ i < n => labels[2 * i].text = <<" ">>

\* C6 as claimed: a vertical render emits chart-height bar rows, top row
\* first (row index r from chart-height down to 1), then one label row; in
\* row r the column of an entry is bar-thickness full blocks if and only if
\* its bar height is >= r, and bar-thickness spaces otherwise, for every
\* bar thickness; one space separates adjacent columns.
C6_IfAndOnlyIf == C6_Layout(-1)

\* C6 as amended: the same rows, with a column of bar-thickness full blocks
\* when the bar height is >= r and of bar-thickness spaces otherwise (no
\* character when the thickness is 0 or less); full blocks if and only if
\* the height is >= r for a thickness of at least 1.
C6_VerticalRows == C6_Layout(1)

C6_Witness ==
    /\ RenderedVertical
    /\ Len(Lines) = 4
    /\ Len(self.items) = 2
    /\ self.bar_width = 2
    /\ Lines[1][1].text = <<" ", " ">>
    /\ Lines[1][3].text = <<FULL_BLOCK, FULL_BLOCK>>
    /\ Lines[3][1].text = <<FULL_BLOCK, FULL_BLOCK>>

\* C7: a horizontal render emits one line per entry in input order, and
\* the bar of every entry with value >= 0 has exactly
\* floor((value / effective maximum) * A) // thickness full blocks, with
\* A = max(1, min(W, container width) - (longest label + 2) - R).  The
\* quotient by the thickness is defined for a thickness of at least 1.
C7_HorizontalBars ==
    (RenderedHorizontal /\ self.bar_width >= 1) =>
        LET lines == Lines
        IN  /\ gen.pc = "done"
            /\ Len(lines) = arg.len
            /\ \A i \in 1 .. Len(lines) :
                 LET line == lines[i]
                     value == self.items[i].value
                 IN  /\ line[2].text = InputLabel(i)
                     /\ line[Len(line)] = SegmentLine
                     /\ \A k \in 1 .. Len(line) - 1 : line[k] # SegmentLine
                     /\ value >= 0 =>
                          CountFull(line[4].text)
                            = ((value * C7_A) \div self.max_value) \div self.bar_width

\* the style definition claim C8 gives the bar at 0-based index i
C8_Expected(i) ==
    IF self.bar_styles.some /\ Len(self.bar_styles.val) > 0
    THEN self.bar_styles.val[(i % Len(self.bar_styles.val)) + 1]
    ELSE IF self.style.some THEN self.style.val
    ELSE default_colors[(i % 8) + 1]

\* the style the latest render gave the bar at 0-based index i: the bar
\* segment of its line, or its cell in the bottom row of a vertical chart
C8_Shown(i) ==
    IF self.orientation = "vertical"
    THEN Lines[Len(Lines) - 1][2 * i + 1].style
    ELSE Lines[i + 1][4].style

\* C8: the style of bar i is list[i mod n] of a non-empty per-bar style
\* list of length n, else the default style if one is configured (whatever
\* style it is, the null style "" included), else palette[i mod 8]; with 2
\* per-bar styles and 5 entries, bars 0, 2, 4 have the first style and bars
\* 1, 3 the second.
C8_StylePrecedence ==
    Completed =>
        /\ \A i \in 0 .. Len(self.items) - 1 :
             /\ C8_Shown(i) = Some(StyleParse(C8_Expected(i)))
             /\ GetBarStyle(self, i) = Some(StyleParse(C8_Expected(i)))
        /\ (self.bar_styles.some /\ Len(self.bar_styles.val) = 2
              /\ Len(self.items) = 5) =>
               /\ C8_Shown(0) = C8_Shown(2) /\ C8_Shown(2) = C8_Shown(4)
               /\ C8_Shown(0) = Some(StyleParse(self.bar_styles.val[1]))
               /\ C8_Shown(1) = C8_Shown(3)
               /\ C8_Shown(1) = Some(StyleParse(self.bar_styles.val[2]))

\* C9: in horizontal mode, for every thickness and bar-area width, the bar
\* text of an entry whose value is <= 0 is empty: no full block and no
\* partial-block glyph.
C9_NonPositiveEmpty ==
    (RenderedHorizontal /\ gen.pc = "done") =>
        \A i \in 1 .. Len(self.items) :
            self.items[i].value <= 0 => Lines[i][4].text = <<>>

\* C10: the number of bar rows of a vertical render is the configured chart
\* height whenever one is configured (0 and negatives included), else
\* min(10, container height), in both cases floored at 1.
C10_ChartHeight ==
    RenderedVertical =>
        Len(Lines) - 1
          = Max(1, IF self.chart_height.some THEN self.chart_height.val
                   ELSE Min(10, gen.options.height))
=============================================================================
